---- MODULE Spec2Model ----
(***************************************************************************)
(* what-the-fetch: the per-call pipeline of createFetch (src/index.ts) and *)
(* its helpers validateData, parseMethodFromPath and validateRequestData   *)
(* (src/utils.ts).                                                         *)
(*                                                                         *)
(* Strings are sequences of one-character strings, so that the two regular *)
(* expressions and toUpperCase are computed character by character.  One   *)
(* call is in flight at a time; its locals are the frame variables, and    *)
(* the per-call counters play the role of the mocks' call counts.          *)
(***************************************************************************)
EXTENDS Integers, Sequences, FiniteSets, TLC

\* Number of calls made through one call operation.
MaxCalls == 2

\* Longest path key given to parseMethodFromPath on its own.
MaxKeyLen == 5

\* Number of calls that may be in flight together.
MaxInFlight == 3

(***************************************************************************)
(* Characters and strings                                                  *)
(***************************************************************************)
LowerSeq == <<"a","b","c","d","e","f","g","h","i","j","k","l","m",
              "n","o","p","q","r","s","t","u","v","w","x","y","z">>
UpperSeq == <<"A","B","C","D","E","F","G","H","I","J","K","L","M",
              "N","O","P","Q","R","S","T","U","V","W","X","Y","Z">>
Digits == {"0","1","2","3","4","5","6","7","8","9"}

LowerLetters == {LowerSeq[i] : i \in 1..Len(LowerSeq)}
UpperLetters == {UpperSeq[i] : i \in 1..Len(UpperSeq)}

\* \w of a JavaScript regular expression
WordChar(c) == c \in LowerLetters \cup UpperLetters \cup Digits \cup {"_"}

\* . of a JavaScript regular expression (no s flag): anything but a line end
DotChar(c) == c \notin {"\n", "\r"}

ToUpperChar(c) ==
  IF c \in LowerLetters
    THEN UpperSeq[CHOOSE i \in 1..Len(LowerSeq) : LowerSeq[i] = c]
    ELSE c

\* String.prototype.toUpperCase
ToUpperCase(s) == [i \in 1..Len(s) |-> ToUpperChar(s[i])]

\* The value undefined where a string is expected (no character is this token).
UndefinedStr == <<"undefined">>

\* JavaScript truthiness of a string-or-undefined
Truthy(s) == s # UndefinedStr /\ s # <<>>

(***************************************************************************)
(* utils.ts: the two regular expressions and parseMethodFromPath           *)
(***************************************************************************)
\* PARAMS_REGEX.test(s), mutated: the pattern anchored at the start
PARAMS_REGEX_test_anchored(s) ==
  Len(s) >= 3 /\ s[1] = "/" /\ s[2] = ":" /\ WordChar(s[3])

\* PARAMS_REGEX.test(s), mutated: the pattern without its leading slash
PARAMS_REGEX_test_noSlash(s) ==
  \E i \in 1..Len(s) : i + 1 <= Len(s) /\ s[i] = ":" /\ WordChar(s[i + 1])

\* PARAMS_REGEX.test(s) with PARAMS_REGEX = /\/:\w+/
PARAMS_REGEX_test(s) ==
  \E i \in 1..Len(s) :
    /\ i + 2 <= Len(s)
    /\ s[i] = "/"
    /\ s[i + 1] = ":"
    /\ WordChar(s[i + 2])

\* Length of the longest run of \w characters of s that starts at position 2
WordRun(s) ==
  IF Len(s) < 2 \/ ~WordChar(s[2]) THEN 0
  ELSE CHOOSE n \in 1..(Len(s) - 1) :
         /\ \A j \in 2..(n + 1) : WordChar(s[j])
         /\ (n + 2 <= Len(s) => ~WordChar(s[n + 2]))

\* METHOD_PREFIX_REGEX.exec(s), mutated into /^@(\w+)(\/.*)?/ : no end anchor,
\* so anything may follow the method name
METHOD_PREFIX_REGEX_exec_openEnded(s) ==
  IF Len(s) < 2 \/ s[1] # "@" \/ WordRun(s) = 0 THEN {}
  ELSE LET n == WordRun(s)
           g1 == SubSeq(s, 2, n + 1)
           rest == SubSeq(s, n + 2, Len(s))
       IN IF rest # <<>> /\ rest[1] = "/" THEN {<<g1, rest>>}
          ELSE {<<g1, UndefinedStr>>}

\* METHOD_PREFIX_REGEX.exec(s) with METHOD_PREFIX_REGEX = /^@(\w+)(\/.*)?$/ :
\* the groups <<match[1], match[2]>> in a set, or {} when there is no match.
\* \w+ cannot give characters back to (\/.*)? because "/" is not a \w.
METHOD_PREFIX_REGEX_exec(s) ==
  IF Len(s) < 2 \/ s[1] # "@" \/ WordRun(s) = 0 THEN {}
  ELSE LET n == WordRun(s)
           g1 == SubSeq(s, 2, n + 1)
           rest == SubSeq(s, n + 2, Len(s))
       IN IF rest = <<>> THEN {<<g1, UndefinedStr>>}
          ELSE IF rest[1] = "/" /\ \A j \in 2..Len(rest) : DotChar(rest[j])
                 THEN {<<g1, rest>>}
                 ELSE {}

\* parseMethodFromPath, mutated: the method taken as written, not upper-cased
parseMethodFromPath_asWritten(path) ==
  LET match == METHOD_PREFIX_REGEX_exec(path)
  IN IF match # {}
       THEN LET m == CHOOSE g \in match : TRUE
            IN <<m[1], IF Truthy(m[2]) THEN m[2] ELSE <<"/">> >>
       ELSE <<UndefinedStr, path>>

\* parseMethodFromPath, mutated: the prefix is read but left in the path
parseMethodFromPath_keepsPrefix(path) ==
  LET match == METHOD_PREFIX_REGEX_exec(path)
  IN IF match # {}
       THEN <<ToUpperCase((CHOOSE g \in match : TRUE)[1]), path>>
       ELSE <<UndefinedStr, path>>

\* parseMethodFromPath(path): <<method, cleanPath>>, method UndefinedStr if absent
parseMethodFromPath(path) ==
  LET match == METHOD_PREFIX_REGEX_exec(path)
  IN IF match # {}
       THEN LET m == CHOOSE g \in match : TRUE
            IN <<ToUpperCase(m[1]), IF Truthy(m[2]) THEN m[2] ELSE <<"/">> >>
       ELSE <<UndefinedStr, path>>

(***************************************************************************)
(* Values exchanged with validators, the transport and JSON.stringify      *)
(***************************************************************************)
NoFields == [k \in {} |-> ""]
Undefined == [tag |-> "undefined", f |-> NoFields]
Null == [tag |-> "null", f |-> NoFields]
\* the number 0: a falsy value that is neither undefined nor null
Zero == [tag |-> "number", f |-> NoFields]
Obj(f) == [tag |-> "object", f |-> f]

\* own enumerable properties copied by an object spread ...v
Spread(v) == IF v.tag = "object" THEN v.f ELSE NoFields

\* { ...a, ...b } on property maps
Merge(a, b) ==
  [k \in DOMAIN a \cup DOMAIN b |-> IF k \in DOMAIN b THEN b[k] ELSE a[k]]

\* Property order used when an object is serialized
KeyOrder == <<"id", "name", "q", "role", "message">>

RECURSIVE StringifyFields(_, _)
StringifyFields(f, i) ==
  IF i > Len(KeyOrder) THEN <<>>
  ELSE LET k == KeyOrder[i]
           rest == StringifyFields(f, i + 1)
       IN IF k \in DOMAIN f
            THEN LET pair == <<"\"", k, "\"", ":", "\"", f[k], "\"">>
                 IN IF rest = <<>> THEN pair ELSE pair \o <<",">> \o rest
            ELSE rest

\* JSON.stringify(v) for v neither undefined nor a function
JSON_stringify(v) ==
  CASE v.tag = "object" -> <<"{">> \o StringifyFields(v.f, 1) \o <<"}">>
    [] v.tag = "null" -> <<"n","u","l","l">>
    [] v.tag = "number" -> <<"0">>
    [] OTHER -> UndefinedStr

RECURSIVE StringifyList(_)
StringifyList(items) ==
  IF items = <<>> THEN <<>>
  ELSE LET head == JSON_stringify(Obj(items[1]))
           rest == StringifyList(Tail(items))
       IN IF rest = <<>> THEN head ELSE head \o <<",">> \o rest

\* JSON.stringify(issues) for an array of issue objects
JSON_stringify_issues(issues) == <<"[">> \o StringifyList(issues) \o <<"]">>

(***************************************************************************)
(* Standard Schema validators (the '~standard'.validate entry point).      *)
(* A schema slot holds "none" when the bundle declares no validator.       *)
(***************************************************************************)
Kinds == {"params", "query", "body"}
Options == Kinds \cup {"response"}

Success(v) == [issues |-> {}, value |-> v]
\* issues is {} for undefined and {list} for a returned issue list
Failure(list) == [issues |-> {list}, value |-> Undefined]

Schemas == {"pass", "coerce", "nullify", "reject", "strict"}

\* schema['~standard'].validate(data)
StandardValidate(schema, data) ==
  CASE schema = "pass" -> Success(data)
    [] schema = "coerce" ->
         Success(Obj(Merge([k \in {"role"} |-> "user"], Spread(data))))
    [] schema = "nullify" -> Success(Null)
    [] schema = "reject" -> Failure(<<[message |-> "bad"]>>)
    [] OTHER ->
         IF data.tag = "object" THEN Success(data)
         ELSE Failure(<<[message |-> "required"], [message |-> "not an object"]>>)

Bundle(p, q, b, r) == [params |-> p, query |-> q, body |-> b, response |-> r]

(***************************************************************************)
(* Errors                                                                  *)
(***************************************************************************)
Err(name, message, cause) == [name |-> name, message |-> message, cause |-> cause]
NoError == Err("", <<>>, {})

\* utils.ts validateData: the error thrown on a failure result, mutated to
\* report the first issue's message only
ValidationError_firstOnly(issues) ==
  Err("Error", <<"Validation failed: ">> \o <<issues[1].message>>, {})

\* new Error(`Validation failed: ${JSON.stringify(result.issues)}`)
ValidationError(issues) ==
  Err("Error", <<"Validation failed: ">> \o JSON_stringify_issues(issues), {})

\* new Error('Path contains parameters but no "params" schema is defined.')
SetupError ==
  Err("Error", <<"Path contains parameters but no \"params\" schema is defined.">>, {})

\* index.ts, mutated: the HTTP error without its cause
HttpError_noCause(resp) ==
  Err("Error", <<"HTTP error! status: ", ToString(resp.status)>>, {})

\* new Error(`HTTP error! status: ${response.status}`, { cause: response })
HttpError(resp) ==
  Err("Error", <<"HTTP error! status: ", ToString(resp.status)>>, {resp})

\* reading a property of undefined (apis[path] for an undeclared path)
UndefinedBundleError == Err("TypeError", <<"Cannot read properties of undefined">>, {})
\* the rejection of fetch itself, and of response.json()
NetworkError == Err("TypeError", <<"fetch failed">>, {})
DecodeError == Err("SyntaxError", <<"Unexpected token">>, {})

(***************************************************************************)
(* utils.ts validateData                                                   *)
(***************************************************************************)
\* validateData after its await, mutated: returns the input, not result.value
ValidateDataResult_returnsInput(schema, data) ==
  LET result == StandardValidate(schema, data)
  IN IF result.issues # {}
       THEN [threw |-> TRUE, error |-> ValidationError(CHOOSE l \in result.issues : TRUE),
             value |-> Undefined]
       ELSE [threw |-> FALSE, error |-> NoError, value |-> data]

\* validateData from the await of schema.validate to its return or throw
ValidateDataResult(schema, data) ==
  LET result == StandardValidate(schema, data)
  IN IF result.issues # {}
       THEN [threw |-> TRUE, error |-> ValidationError(CHOOSE l \in result.issues : TRUE),
             value |-> Undefined]
       ELSE [threw |-> FALSE, error |-> NoError, value |-> result.value]

\* validateData up to its await: without a schema it returns data at once,
\* otherwise the validator is invoked and the result is pending
ValidateDataStart(apiSchema, option, data) ==
  IF apiSchema[option] = "none"
    THEN [state |-> "ok", value |-> data, invoked |-> 0]
    ELSE [state |-> "pending", value |-> Undefined, invoked |-> 1]

\* Promise.all settling state, mutated into Promise.any: one success is enough
PromiseAll_any(vs) ==
  IF \E k \in Kinds : vs[k] = "ok" THEN "fulfilled"
  ELSE IF \A k \in Kinds : vs[k] \in {"failed", "threw"} THEN "rejected"
  ELSE "pending"

\* Promise.all over the three validations, mutated into Promise.allSettled
PromiseAll_allSettled(vs) ==
  IF \A k \in Kinds : vs[k] \in {"ok", "failed"} THEN "fulfilled" ELSE "pending"

\* Promise.all over the three validations
PromiseAll(vs) ==
  IF \E k \in Kinds : vs[k] \in {"failed", "threw"} THEN "rejected"
  ELSE IF \A k \in Kinds : vs[k] = "ok" THEN "fulfilled"
  ELSE "pending"

\* the order in which validateRequestData passes the three validations
KindOrder == <<"params", "query", "body">>

\* the value Promise.all fulfils with, mutated: values in completion order
PromiseAllValue_completionOrder(vv, completed) ==
  [i \in 1..3 |-> IF i <= Len(completed) THEN vv[completed[i]] ELSE vv[KindOrder[i]]]

\* the value Promise.all fulfils with: the values in the order of its input
\* array, whatever the order (completed) in which they became available
PromiseAllValue(vv, completed) == [i \in 1..3 |-> vv[KindOrder[i]]]

\* utils.ts 114-118, mutated: each validateData awaited before the next starts
StartAll_awaitEach(apiSchema, o) ==
  LET first == [k \in Kinds |-> ValidateDataStart(apiSchema, k, IF o.tag = "undefined" THEN Undefined ELSE o[k])]
      blocked(i) == \E j \in 1..(i - 1) : first[KindOrder[j]].state = "pending"
  IN [k \in Kinds |->
        LET i == CHOOSE n \in 1..3 : KindOrder[n] = k
        IN IF blocked(i) THEN [state |-> "idle", value |-> Undefined, invoked |-> 0]
           ELSE first[k]]

\* utils.ts 114-118: the three validateData calls that build Promise.all's
\* input array, each run up to its first await
StartAll(apiSchema, o) ==
  [k \in Kinds |-> ValidateDataStart(apiSchema, k, IF o.tag = "undefined" THEN Undefined ELSE o[k])]

(***************************************************************************)
(* Request configuration (RequestInit)                                     *)
(***************************************************************************)
S(t) == <<t>>
GET == <<"G","E","T">>
POST == <<"P","O","S","T">>

UndefinedInit == [tag |-> "undefined", top |-> NoFields, headers |-> NoFields]
Cfg(top, headers) == [tag |-> "object", top |-> top, headers |-> headers]

\* ...cfg at the top level (headers are merged separately)
SpreadTop(cfg) == IF cfg.tag = "undefined" THEN NoFields ELSE cfg.top
\* ...cfg?.headers
SpreadHeaders(cfg) == IF cfg.tag = "undefined" THEN NoFields ELSE cfg.headers

\* index.ts 104-105, mutated: body tested for truthiness
HttpMethod_truthyBody(method, body) ==
  IF Truthy(method) THEN method
  ELSE IF body.tag = "object" THEN POST ELSE GET

\* index.ts 104-105, mutated: only an undefined body counts as absent
HttpMethod_undefinedOnly(method, body) ==
  IF Truthy(method) THEN method
  ELSE IF body # Undefined THEN POST ELSE GET

\* index.ts 104-105: method || (body !== undefined && body !== null ? 'POST' : 'GET')
HttpMethod(method, body) ==
  IF Truthy(method) THEN method
  ELSE IF body # Undefined /\ body # Null THEN POST ELSE GET

\* index.ts 112-116, mutated: the default Content-Type written last
MergeHeaders_defaultLast(shared, perCall) ==
  Merge(Merge(SpreadHeaders(shared), SpreadHeaders(perCall)),
        [k \in {"Content-Type"} |-> S("application/json")])

\* index.ts 112-116: { 'Content-Type': ..., ...sharedInit?.headers, ...init?.headers }
MergeHeaders(shared, perCall) ==
  Merge(Merge([k \in {"Content-Type"} |-> S("application/json")],
              SpreadHeaders(shared)),
        SpreadHeaders(perCall))

\* index.ts 108-117, mutated: method written before the spreads
MergeInit_methodFirst(shared, perCall, httpMethod) ==
  [top |-> Merge(Merge([k \in {"method"} |-> httpMethod], SpreadTop(shared)),
                 SpreadTop(perCall)),
   headers |-> MergeHeaders(shared, perCall)]

\* index.ts 108-117: { ...sharedInit, ...init, method: httpMethod, headers: {...} }
MergeInit(shared, perCall, httpMethod) ==
  [top |-> Merge(Merge(SpreadTop(shared), SpreadTop(perCall)),
                 [k \in {"method"} |-> httpMethod]),
   headers |-> MergeHeaders(shared, perCall)]

\* index.ts 119-121, mutated: if (body)
AttachBody_truthy(requestInit, body) ==
  IF body.tag = "object"
    THEN [requestInit EXCEPT
            !.top = Merge(@, [k \in {"body"} |-> JSON_stringify(body)])]
    ELSE requestInit

\* index.ts 119-121: if (body !== undefined && body !== null) requestInit.body = ...
AttachBody(requestInit, body) ==
  IF body # Undefined /\ body # Null
    THEN [requestInit EXCEPT
            !.top = Merge(@, [k \in {"body"} |-> JSON_stringify(body)])]
    ELSE requestInit

\* index.ts 124-127, mutated: params spread after query
UrlSubstitutions_paramsLast(params, query) == Merge(Spread(query), Spread(params))

\* index.ts 124-127: { ...params, ...query }
UrlSubstitutions(params, query) == Merge(Spread(params), Spread(query))

\* createUrl of fast-url, kept as its three arguments
createUrl(base, cleanPath, subst) ==
  [base |-> base, path |-> cleanPath, subst |-> subst]

(***************************************************************************)
(* createFetch(apis, baseUrl, sharedInit): what the call operation closes  *)
(* over, and the inputs of a call                                          *)
(***************************************************************************)
P_users == <<"/","u","s","e","r","s">>
P_items == <<"/","i","t","e","m","s">>
P_users_id == <<"/","u","s","e","r","s","/",":","i","d">>
P_posts_id == <<"/","p","o","s","t","s","/",":","i","d">>
P_put_users_id == <<"@","P","u","t","/","u","s","e","r","s","/",":","i","d">>
P_get_users_id == <<"@","g","e","t","/","u","s","e","r","s","/",":","i","d">>
P_get == <<"@","g","e","t">>
P_missing == <<"/","m","i","s","s","i","n","g">>
P_ping == <<"/","p","i","n","g">>
P_get_ping == <<"@","g","e","t","/","p","i","n","g">>
P_put_ping == <<"@","p","u","t","/","p","i","n","g">>
P_notes == <<"/","n","o","t","e","s">>
P_toString == <<"t","o","S","t","r","i","n","g">>

\* the schema map bound at setup
apis ==
  (P_users :> Bundle("none", "pass", "pass", "coerce")) @@
  (P_items :> Bundle("none", "strict", "reject", "none")) @@
  (P_users_id :> Bundle("strict", "pass", "nullify", "pass")) @@
  (P_posts_id :> Bundle("none", "reject", "pass", "pass")) @@
  (P_put_users_id :> Bundle("pass", "none", "coerce", "reject")) @@
  (P_get_users_id :> Bundle("none", "none", "none", "pass")) @@
  (P_get :> Bundle("none", "none", "none", "none")) @@
  (P_ping :> Bundle("none", "pass", "none", "coerce")) @@
  (P_get_ping :> Bundle("none", "pass", "none", "none")) @@
  (P_put_ping :> Bundle("none", "pass", "none", "none")) @@
  (P_notes :> Bundle("none", "none", "coerce", "reject"))

\* apis is an ordinary object: besides its own entries, apis[p] finds the
\* members of Object.prototype (toString, constructor, valueOf, ...), which
\* are functions and so have no params, query, body or response property
InheritedKeys == {P_toString}

\* apis[p] !== undefined
ApisHas(p) == p \in DOMAIN apis \cup InheritedKeys

\* apis[p], read as a schema bundle
ApisAt(p) ==
  IF p \in DOMAIN apis THEN apis[p] ELSE Bundle("none", "none", "none", "none")

baseUrl == <<"https://api.example.com">>

\* path keys a caller may pass (the last one is not declared in apis)
PathKeys ==
  {P_users, P_items, P_users_id, P_posts_id, P_put_users_id, P_get_users_id,
   P_get, P_missing}

SharedInits ==
  { UndefinedInit,
    Cfg(("cache" :> S("no-store")) @@ ("credentials" :> S("include")),
        ("X-A" :> S("1")) @@ ("Authorization" :> S("Bearer token"))),
    Cfg(("method" :> S("DELETE")) @@ ("body" :> S("shared-raw")),
        ("Content-Type" :> S("text/plain"))) }

PerCallInits ==
  { UndefinedInit,
    Cfg(("cache" :> S("reload")) @@ ("method" :> S("PATCH")),
        ("X-A" :> S("2")) @@ ("X-B" :> S("3"))),
    Cfg(("body" :> S("raw")) @@ ("keepalive" :> S("true")),
        ("Content-Type" :> S("text/xml"))) }

ParamVals == {Undefined, Obj([k \in {"id"} |-> "1"])}
QueryVals == {Undefined, Obj([k \in {"q"} |-> "x"]), Obj([k \in {"id"} |-> "9"])}
BodyVals == {Undefined, Null, Zero, Obj(NoFields), Obj([k \in {"name"} |-> "John"])}

\* options omitted altogether
UndefinedOptions ==
  [tag |-> "undefined", params |-> Undefined, query |-> Undefined, body |-> Undefined]

OptionsSet ==
  {UndefinedOptions} \cup
  {[tag |-> "object", params |-> p, query |-> q, body |-> b] :
     p \in ParamVals, q \in QueryVals, b \in BodyVals}

\* options?.[k]
OptionOf(o, k) == IF o.tag = "undefined" THEN Undefined ELSE o[k]

Resp(status, d) == [ok |-> (status >= 200 /\ status <= 299), status |-> status, data |-> d]

\* what the transport may answer
Responses ==
  { Resp(200, Obj(("id" :> "1") @@ ("name" :> "John"))),
    Resp(201, Null),
    Resp(404, Obj([k \in {"message"} |-> "not found"])),
    Resp(500, Undefined) }

(***************************************************************************)
(* State                                                                   *)
(***************************************************************************)
VARIABLES
  sharedInit,   \* the shared configuration bound at setup
  callNo,       \* number of calls started so far; the running call's id
  pc,           \* where the running call is suspended
  path,         \* the running call's arguments
  options,
  init,
  vstate,       \* per option: idle, pending, ok, failed, threw
  vvalue,       \* per option: the value validateData resolved with
  request,      \* {} or {[url, init]} handed to fetch
  response,     \* {} or {the Response fetch resolved with}
  data,         \* what response.json() resolved with
  settled,      \* the returned promise: pending, resolved, rejected
  result,       \* its value when resolved
  error,        \* its reason when rejected
  invoked,      \* per option: invocations of the validator in this call
  jsonCalls,    \* invocations of response.json() in this call
  fetchCalls,   \* per call id: invocations of fetch
  settles,      \* per call id: times the returned promise settled
  validated,    \* per call id: all three request validations succeeded
  order,        \* params, query, body in the order their validations completed
  triple,       \* the local [params, query, body] once the await has resumed
  key,          \* a path key handed to the utilities on their own
  hasParams,    \* whether the bundle of key declares a params schema
  keyParsed,    \* {} or {parseMethodFromPath(key)}
  setup,        \* the parameter check on key: none, passed, threw
  calls,        \* per call in flight together: its arguments, locals, outcome
  vd,           \* the arguments of a validateData call made on its own
  vdPc,         \* that call: start, awaiting, returned, threw
  vdLog,        \* the validator invocations it made: <<[slot, data], ...>>
  vdOut         \* the value it resolved with

callVars == <<sharedInit, callNo, pc, path, options, init, vstate, vvalue,
              request, response, data, settled, result, error, invoked,
              jsonCalls, fetchCalls, settles, validated, order, triple>>

keyVars == <<key, hasParams, keyParsed, setup>>

unitVars == <<vd, vdPc, vdLog, vdOut>>

otherVars == <<keyVars, calls, unitVars>>

vars == <<callVars, otherVars>>

CallIds == 1..MaxCalls

FlightIds == 1..MaxInFlight

\* a call that has not been made
IdleFrame ==
  [pc |-> "idle", path |-> <<>>, options |-> UndefinedOptions,
   init |-> UndefinedInit,
   vstate |-> [o \in Options |-> "idle"],
   vvalue |-> [o \in Options |-> Undefined],
   request |-> {}, response |-> {}, data |-> Undefined,
   settled |-> "pending", result |-> Undefined, error |-> NoError]

Init ==
  /\ sharedInit \in SharedInits
  /\ callNo = 0
  /\ pc = "idle"
  /\ path = <<>>
  /\ options = UndefinedOptions
  /\ init = UndefinedInit
  /\ vstate = [o \in Options |-> "idle"]
  /\ vvalue = [o \in Options |-> Undefined]
  /\ request = {}
  /\ response = {}
  /\ data = Undefined
  /\ settled = "pending"
  /\ result = Undefined
  /\ error = NoError
  /\ invoked = [o \in Options |-> 0]
  /\ jsonCalls = 0
  /\ fetchCalls = [c \in CallIds |-> 0]
  /\ settles = [c \in CallIds |-> 0]
  /\ validated = [c \in CallIds |-> FALSE]
  /\ order = <<>>
  /\ triple = <<>>
  /\ key = <<>>
  /\ hasParams = FALSE
  /\ keyParsed = {}
  /\ setup = "none"
  /\ calls = [c \in FlightIds |-> IdleFrame]
  /\ vd = [apiSchema |-> Bundle("none", "none", "none", "none"),
           option |-> "response", data |-> Undefined]
  /\ vdPc = "start"
  /\ vdLog = <<>>
  /\ vdOut = Undefined

\* the returned promise rejects with e
Reject(c, e) ==
  /\ settled' = "rejected"
  /\ error' = e
  /\ result' = Undefined
  /\ settles' = [settles EXCEPT ![c] = @ + 1]
  /\ pc' = "done"

\* the returned promise resolves with v
Resolve(c, v) ==
  /\ settled' = "resolved"
  /\ result' = v
  /\ error' = NoError
  /\ settles' = [settles EXCEPT ![c] = @ + 1]
  /\ pc' = "done"

(***************************************************************************)
(* index.ts 93-98 and utils.ts validateRequestData, up to the first await  *)
(***************************************************************************)
Call(p, o, i) ==
  /\ callNo < MaxCalls
  /\ pc = "idle"
  /\ LET c == callNo + 1
         cleanPath == parseMethodFromPath(p)[2]
         starts == StartAll(ApisAt(p), o)
     IN /\ callNo' = c
        /\ path' = p
        /\ options' = o
        /\ init' = i
        /\ request' = {}
        /\ response' = {}
        /\ data' = Undefined
        /\ jsonCalls' = 0
        /\ triple' = <<>>
        /\ IF ~ApisHas(p)
             THEN \* apiSchema is undefined: reading a schema slot throws
                  /\ vstate' = [k \in Options |-> IF k \in Kinds THEN "threw" ELSE "idle"]
                  /\ vvalue' = [k \in Options |-> Undefined]
                  /\ invoked' = [k \in Options |-> 0]
                  /\ validated' = validated
                  /\ order' = <<>>
                  /\ Reject(c, UndefinedBundleError)
           ELSE IF PARAMS_REGEX_test(cleanPath) /\ ApisAt(p).params = "none"
             THEN /\ vstate' = [k \in Options |-> "idle"]
                  /\ vvalue' = [k \in Options |-> Undefined]
                  /\ invoked' = [k \in Options |-> 0]
                  /\ validated' = validated
                  /\ order' = <<>>
                  /\ Reject(c, SetupError)
           ELSE /\ vstate' = [k \in Options |->
                               IF k \in Kinds THEN starts[k].state ELSE "idle"]
                /\ vvalue' = [k \in Options |->
                               IF k \in Kinds THEN starts[k].value ELSE Undefined]
                /\ invoked' = [k \in Options |->
                               IF k \in Kinds THEN starts[k].invoked ELSE 0]
                /\ validated' = [validated EXCEPT ![c] =
                                   \A k \in Kinds : starts[k].state = "ok"]
                /\ order' = SelectSeq(KindOrder, LAMBDA k : starts[k].state = "ok")
                /\ pc' = "validating"
                /\ settled' = "pending"
                /\ result' = Undefined
                /\ error' = NoError
                /\ settles' = settles
  /\ UNCHANGED <<sharedInit, fetchCalls>>
  /\ UNCHANGED otherVars

(***************************************************************************)
(* utils.ts validateData 44-50 for params, query or body: the validator    *)
(* returns; Promise.all rejects on the first failure                       *)
(***************************************************************************)
\* mutated: every failing validation rejects the call anew, so the failure
\* that comes last decides the error
ValidatorReturns_lastFailureWins(k) ==
  /\ k \in Kinds
  /\ vstate[k] = "pending"
  /\ LET r == ValidateDataResult(apis[path][k], OptionOf(options, k))
         vs == [vstate EXCEPT ![k] = IF r.threw THEN "failed" ELSE "ok"]
     IN /\ vstate' = vs
        /\ vvalue' = [vvalue EXCEPT ![k] = r.value]
        /\ validated' = [validated EXCEPT ![callNo] = \A j \in Kinds : vs[j] = "ok"]
        /\ order' = Append(order, k)
        /\ IF r.threw
             THEN Reject(callNo, r.error)
             ELSE UNCHANGED <<settled, result, error, settles, pc>>
  /\ UNCHANGED <<sharedInit, callNo, path, options, init, request, response,
                 data, invoked, jsonCalls, fetchCalls>>
  /\ UNCHANGED <<triple, otherVars>>

ValidatorReturns(k) ==
  /\ k \in Kinds
  /\ vstate[k] = "pending"
  /\ LET r == ValidateDataResult(apis[path][k], OptionOf(options, k))
         vs == [vstate EXCEPT ![k] = IF r.threw THEN "failed" ELSE "ok"]
     IN /\ vstate' = vs
        /\ vvalue' = [vvalue EXCEPT ![k] = r.value]
        /\ validated' = [validated EXCEPT ![callNo] = \A j \in Kinds : vs[j] = "ok"]
        /\ order' = Append(order, k)
        /\ IF pc = "validating" /\ PromiseAll(vs) = "rejected"
             THEN Reject(callNo, r.error)
             ELSE UNCHANGED <<settled, result, error, settles, pc>>
  /\ UNCHANGED <<sharedInit, callNo, path, options, init, request, response,
                 data, invoked, jsonCalls, fetchCalls>>
  /\ UNCHANGED <<triple, otherVars>>

(***************************************************************************)
(* index.ts 94-130: the await of validateRequestData resumes, the request  *)
(* is assembled and fetch is invoked                                       *)
(***************************************************************************)
\* index.ts 108-117, mutated: the per-call configuration, the method and the
\* headers are assigned into the shared configuration object, which is then
\* handed to fetch
Dispatch_assignsShared ==
  /\ pc = "validating"
  /\ PromiseAll(vstate) = "fulfilled"
  /\ LET triple_ == PromiseAllValue(vvalue, order)
         params == triple_[1]
         query == triple_[2]
         body == triple_[3]
         parsed == parseMethodFromPath(path)
         httpMethod == HttpMethod(parsed[1], body)
         requestInit == AttachBody(MergeInit(sharedInit, init, httpMethod), body)
         url == createUrl(baseUrl, parsed[2], UrlSubstitutions(params, query))
     IN /\ triple' = triple_
        /\ request' = {[url |-> url, init |-> requestInit]}
        /\ sharedInit' = Cfg(requestInit.top, requestInit.headers)
        /\ fetchCalls' = [fetchCalls EXCEPT ![callNo] = @ + 1]
        /\ pc' = "fetching"
  /\ UNCHANGED <<callNo, path, options, init, vstate, vvalue,
                 response, data, settled, result, error, invoked, jsonCalls,
                 settles, validated,
                 order>>
  /\ UNCHANGED otherVars

\* mutated: the request is assembled from the options as the caller
\* passed them, not from what validateRequestData resolved with
Dispatch_rawOptions ==
  /\ pc = "validating"
  /\ PromiseAll(vstate) = "fulfilled"
  /\ LET triple_ == PromiseAllValue(vvalue, order)
         params == OptionOf(options, "params")
         query == OptionOf(options, "query")
         body == OptionOf(options, "body")
         parsed == parseMethodFromPath(path)
         httpMethod == HttpMethod(parsed[1], body)
         requestInit == AttachBody(MergeInit(sharedInit, init, httpMethod), body)
         url == createUrl(baseUrl, parsed[2], UrlSubstitutions(params, query))
     IN /\ triple' = triple_
        /\ request' = {[url |-> url, init |-> requestInit]}
        /\ fetchCalls' = [fetchCalls EXCEPT ![callNo] = @ + 1]
        /\ pc' = "fetching"
  /\ UNCHANGED <<sharedInit, callNo, path, options, init, vstate, vvalue,
                 response, data, settled, result, error, invoked, jsonCalls,
                 settles, validated,
                 order>>
  /\ UNCHANGED otherVars

Dispatch ==
  /\ pc = "validating"
  /\ PromiseAll(vstate) = "fulfilled"
  /\ LET triple_ == PromiseAllValue(vvalue, order)
         params == triple_[1]
         query == triple_[2]
         body == triple_[3]
         parsed == parseMethodFromPath(path)
         httpMethod == HttpMethod(parsed[1], body)
         requestInit == AttachBody(MergeInit(sharedInit, init, httpMethod), body)
         url == createUrl(baseUrl, parsed[2], UrlSubstitutions(params, query))
     IN /\ triple' = triple_
        /\ request' = {[url |-> url, init |-> requestInit]}
        /\ fetchCalls' = [fetchCalls EXCEPT ![callNo] = @ + 1]
        /\ pc' = "fetching"
  /\ UNCHANGED <<sharedInit, callNo, path, options, init, vstate, vvalue,
                 response, data, settled, result, error, invoked, jsonCalls,
                 settles, validated,
                 order>>
  /\ UNCHANGED otherVars

(***************************************************************************)
(* index.ts 130-139: fetch resolves; a non-ok response throws, an ok one   *)
(* has its json() invoked                                                  *)
(***************************************************************************)
\* mutated: a 5xx answer makes the call invoke fetch once more
FetchReturns_retry(resp) ==
  /\ pc = "fetching"
  /\ response' = {resp}
  /\ IF ~resp.ok
       THEN IF resp.status >= 500 /\ fetchCalls[callNo] < 2
              THEN /\ fetchCalls' = [fetchCalls EXCEPT ![callNo] = @ + 1]
                   /\ UNCHANGED <<jsonCalls, settled, result, error, settles, pc>>
              ELSE /\ Reject(callNo, HttpError(resp))
                   /\ UNCHANGED <<jsonCalls, fetchCalls>>
       ELSE /\ jsonCalls' = jsonCalls + 1
            /\ pc' = "decoding"
            /\ UNCHANGED <<settled, result, error, settles, fetchCalls>>
  /\ UNCHANGED <<sharedInit, callNo, path, options, init, vstate, vvalue,
                 request, data, invoked, validated,
                 order>>
  /\ UNCHANGED <<triple, otherVars>>

FetchReturns(resp) ==
  /\ pc = "fetching"
  /\ response' = {resp}
  /\ IF ~resp.ok
       THEN /\ Reject(callNo, HttpError(resp))
            /\ UNCHANGED jsonCalls
       ELSE /\ jsonCalls' = jsonCalls + 1
            /\ pc' = "decoding"
            /\ UNCHANGED <<settled, result, error, settles>>
  /\ UNCHANGED <<sharedInit, callNo, path, options, init, vstate, vvalue,
                 request, data, invoked, fetchCalls, validated,
                 order>>
  /\ UNCHANGED <<triple, otherVars>>

\* index.ts 130: fetch itself rejects
FetchRejects ==
  /\ pc = "fetching"
  /\ Reject(callNo, NetworkError)
  /\ UNCHANGED <<sharedInit, callNo, path, options, init, vstate, vvalue,
                 request, response, data, invoked, jsonCalls, fetchCalls,
                 validated,
                 order>>
  /\ UNCHANGED <<triple, otherVars>>

(***************************************************************************)
(* index.ts 139-141: json() resolves and validateData(apis[path],          *)
(* 'response', data) runs up to its await                                  *)
(***************************************************************************)
JsonReturns ==
  /\ pc = "decoding"
  /\ LET resp == CHOOSE r \in response : TRUE
         start == ValidateDataStart(ApisAt(path), "response", resp.data)
     IN /\ data' = resp.data
        /\ vstate' = [vstate EXCEPT !["response"] = start.state]
        /\ vvalue' = [vvalue EXCEPT !["response"] = start.value]
        /\ invoked' = [invoked EXCEPT !["response"] = @ + start.invoked]
        /\ IF start.state = "ok"
             THEN Resolve(callNo, start.value)
             ELSE /\ pc' = "validatingResponse"
                  /\ UNCHANGED <<settled, result, error, settles>>
  /\ UNCHANGED <<sharedInit, callNo, path, options, init, request, response,
                 jsonCalls, fetchCalls, validated,
                 order>>
  /\ UNCHANGED <<triple, otherVars>>

\* mutated: a body that cannot be decoded makes the call resolve with null
JsonRejects_fallback ==
  /\ pc = "decoding"
  /\ Resolve(callNo, Null)
  /\ UNCHANGED <<sharedInit, callNo, path, options, init, vstate, vvalue,
                 request, response, data, invoked, jsonCalls, fetchCalls,
                 validated,
                 order>>
  /\ UNCHANGED <<triple, otherVars>>

\* index.ts 139: response.json() rejects
JsonRejects ==
  /\ pc = "decoding"
  /\ Reject(callNo, DecodeError)
  /\ UNCHANGED <<sharedInit, callNo, path, options, init, vstate, vvalue,
                 request, response, data, invoked, jsonCalls, fetchCalls,
                 validated,
                 order>>
  /\ UNCHANGED <<triple, otherVars>>

\* mutated: a response that fails validation is fetched again
ResponseValidatorReturns_refetch ==
  /\ pc = "validatingResponse"
  /\ vstate["response"] = "pending"
  /\ LET r == ValidateDataResult(apis[path].response, data)
     IN IF r.threw
          THEN /\ pc' = "fetching"
               /\ vstate' = [vstate EXCEPT !["response"] = "idle"]
               /\ UNCHANGED <<vvalue, settled, result, error, settles>>
          ELSE /\ vstate' = [vstate EXCEPT !["response"] = "ok"]
               /\ vvalue' = [vvalue EXCEPT !["response"] = r.value]
               /\ Resolve(callNo, r.value)
  /\ UNCHANGED <<sharedInit, callNo, path, options, init, request, response,
                 data, invoked, jsonCalls, fetchCalls, validated,
                 order>>
  /\ UNCHANGED <<triple, otherVars>>

(***************************************************************************)
(* utils.ts validateData 44-50 for 'response': the validator returns and   *)
(* the call settles with its value or its issues                           *)
(***************************************************************************)
ResponseValidatorReturns ==
  /\ pc = "validatingResponse"
  /\ vstate["response"] = "pending"
  /\ LET r == ValidateDataResult(apis[path].response, data)
     IN /\ vstate' = [vstate EXCEPT !["response"] = IF r.threw THEN "failed" ELSE "ok"]
        /\ vvalue' = [vvalue EXCEPT !["response"] = r.value]
        /\ IF r.threw THEN Reject(callNo, r.error) ELSE Resolve(callNo, r.value)
  /\ UNCHANGED <<sharedInit, callNo, path, options, init, request, response,
                 data, invoked, jsonCalls, fetchCalls, validated,
                 order>>
  /\ UNCHANGED <<triple, otherVars>>

(***************************************************************************)
(* The caller's await of the returned promise resumes: the settled call's  *)
(* frame (its arguments and locals) is gone, only the counters remain      *)
(***************************************************************************)
Return ==
  /\ pc = "done"
  /\ pc' = "idle"
  /\ path' = <<>>
  /\ options' = UndefinedOptions
  /\ init' = UndefinedInit
  /\ vstate' = [o \in Options |-> "idle"]
  /\ vvalue' = [o \in Options |-> Undefined]
  /\ request' = {}
  /\ response' = {}
  /\ data' = Undefined
  /\ settled' = "pending"
  /\ result' = Undefined
  /\ error' = NoError
  /\ invoked' = [o \in Options |-> 0]
  /\ jsonCalls' = 0
  /\ order' = <<>>
  /\ triple' = <<>>
  /\ UNCHANGED <<sharedInit, callNo, fetchCalls, settles, validated>>
  /\ UNCHANGED otherVars

Next ==
  \/ \E p \in PathKeys, o \in OptionsSet, i \in PerCallInits : Call(p, o, i)
  \/ \E k \in Kinds : ValidatorReturns(k)
  \/ Dispatch
  \/ \E resp \in Responses : FetchReturns(resp)
  \/ FetchRejects
  \/ JsonReturns
  \/ JsonRejects
  \/ ResponseValidatorReturns
  \/ Return

Spec == Init /\ [][Next]_vars

(***************************************************************************)
(* The same call operation driven with a few inputs, among them validators *)
(* that change the shape of what they are given                            *)
(***************************************************************************)
SampleKeys ==
  {P_notes, P_users_id, P_items, P_get_users_id, P_missing, P_toString}

SampleOptions ==
  { UndefinedOptions,
    [tag |-> "object", params |-> Obj([k \in {"id"} |-> "1"]),
     query |-> Obj([k \in {"id"} |-> "9"]),
     body |-> Obj([k \in {"name"} |-> "John"])] }

SampleInits ==
  { UndefinedInit,
    Cfg(("body" :> S("raw")) @@ ("keepalive" :> S("true")),
        ("Content-Type" :> S("text/xml"))) }

NextSample ==
  \/ \E p \in SampleKeys, o \in SampleOptions, i \in SampleInits : Call(p, o, i)
  \/ \E k \in Kinds : ValidatorReturns(k)
  \/ Dispatch
  \/ \E resp \in Responses : FetchReturns(resp)
  \/ FetchRejects
  \/ JsonReturns
  \/ JsonRejects
  \/ ResponseValidatorReturns
  \/ Return

SpecSample == Init /\ [][NextSample]_vars

(***************************************************************************)
(* The same calls when everything a call awaits completes: a validator     *)
(* that was invoked returns, fetch settles, response.json() settles, and   *)
(* the continuation after Promise.all (index.ts 101-130) is run by the     *)
(* event loop once the three validations are done                          *)
(***************************************************************************)
Completions ==
  /\ WF_vars(\E k \in Kinds : ValidatorReturns(k))
  /\ WF_vars(Dispatch)
  /\ WF_vars((\E resp \in Responses : FetchReturns(resp)) \/ FetchRejects)
  /\ WF_vars(JsonReturns \/ JsonRejects)
  /\ WF_vars(ResponseValidatorReturns)

SpecSampleLive == Init /\ [][NextSample]_vars /\ Completions

(***************************************************************************)
(* The utilities on their own: parseMethodFromPath and the parameter check *)
(* of validateRequestData (utils.ts 106-112) applied to every path key     *)
(* over a small alphabet                                                   *)
(***************************************************************************)
PathAlphabet == {"@", "/", ":", "a", "1", "_"}

Keys == UNION {[1..n -> PathAlphabet] : n \in 0..MaxKeyLen}

InitKeys ==
  /\ sharedInit = UndefinedInit
  /\ callNo = 0
  /\ pc = "idle"
  /\ path = <<>>
  /\ options = UndefinedOptions
  /\ init = UndefinedInit
  /\ vstate = [o \in Options |-> "idle"]
  /\ vvalue = [o \in Options |-> Undefined]
  /\ request = {}
  /\ response = {}
  /\ data = Undefined
  /\ settled = "pending"
  /\ result = Undefined
  /\ error = NoError
  /\ invoked = [o \in Options |-> 0]
  /\ jsonCalls = 0
  /\ fetchCalls = [c \in CallIds |-> 0]
  /\ settles = [c \in CallIds |-> 0]
  /\ validated = [c \in CallIds |-> FALSE]
  /\ order = <<>>
  /\ triple = <<>>
  /\ key \in Keys
  /\ hasParams \in BOOLEAN
  /\ keyParsed = {}
  /\ setup = "none"
  /\ calls = [c \in FlightIds |-> IdleFrame]
  /\ vd = [apiSchema |-> Bundle("none", "none", "none", "none"),
           option |-> "response", data |-> Undefined]
  /\ vdPc = "start"
  /\ vdLog = <<>>
  /\ vdOut = Undefined

\* utils.ts 74-79: parseMethodFromPath(key)
ParseKey ==
  /\ keyParsed = {}
  /\ keyParsed' = {parseMethodFromPath(key)}
  /\ UNCHANGED <<key, hasParams, setup, callVars, calls, unitVars>>

\* utils.ts 106-112: the parameter check of validateRequestData on key
CheckParams ==
  /\ keyParsed # {}
  /\ setup = "none"
  /\ LET cleanPath == parseMethodFromPath(key)[2]
     IN setup' = IF PARAMS_REGEX_test(cleanPath) /\ ~hasParams THEN "threw" ELSE "passed"
  /\ UNCHANGED <<key, hasParams, keyParsed, callVars, calls, unitVars>>

NextKeys == ParseKey \/ CheckParams

SpecKeys == InitKeys /\ [][NextKeys]_vars

(***************************************************************************)
(* Several calls through one call operation in flight together: each call  *)
(* has its own arguments and locals (index.ts 84-143 is one async function *)
(* invocation per call); apis, baseUrl and sharedInit are the closure's.   *)
(* The transport answers every request and every body decodes.             *)
(***************************************************************************)
FlightInputs ==
  { [path |-> P_ping,
     options |-> [tag |-> "object", params |-> Undefined,
                  query |-> Obj([k \in {"q"} |-> "x"]), body |-> Undefined],
     init |-> UndefinedInit],
    [path |-> P_get_ping,
     options |-> [tag |-> "object", params |-> Undefined,
                  query |-> Obj([k \in {"q"} |-> "x"]), body |-> Undefined],
     init |-> UndefinedInit],
    [path |-> P_put_ping,
     options |-> [tag |-> "object", params |-> Undefined,
                  query |-> Obj([k \in {"q"} |-> "x"]),
                  body |-> Obj([k \in {"name"} |-> "John"])],
     init |-> Cfg(("cache" :> S("reload")) @@ ("method" :> S("PATCH")),
                  ("X-A" :> S("2")) @@ ("X-B" :> S("3")))] }

FlightShared ==
  { Cfg(("cache" :> S("no-store")) @@ ("credentials" :> S("include")),
        ("X-A" :> S("1")) @@ ("Authorization" :> S("Bearer token"))) }

FlightResponses ==
  { Resp(200, Obj(("id" :> "1") @@ ("name" :> "John"))),
    Resp(404, Obj([k \in {"message"} |-> "not found"])) }

InitFlight ==
  /\ sharedInit \in FlightShared
  /\ callNo = 0
  /\ pc = "idle"
  /\ path = <<>>
  /\ options = UndefinedOptions
  /\ init = UndefinedInit
  /\ vstate = [o \in Options |-> "idle"]
  /\ vvalue = [o \in Options |-> Undefined]
  /\ request = {}
  /\ response = {}
  /\ data = Undefined
  /\ settled = "pending"
  /\ result = Undefined
  /\ error = NoError
  /\ invoked = [o \in Options |-> 0]
  /\ jsonCalls = 0
  /\ fetchCalls = [c \in CallIds |-> 0]
  /\ settles = [c \in CallIds |-> 0]
  /\ validated = [c \in CallIds |-> FALSE]
  /\ order = <<>>
  /\ triple = <<>>
  /\ key = <<>>
  /\ hasParams = FALSE
  /\ keyParsed = {}
  /\ setup = "none"
  /\ calls = [c \in FlightIds |-> IdleFrame]
  /\ vd = [apiSchema |-> Bundle("none", "none", "none", "none"),
           option |-> "response", data |-> Undefined]
  /\ vdPc = "start"
  /\ vdLog = <<>>
  /\ vdOut = Undefined

localVars == <<callNo, pc, path, options, init, vstate, vvalue, request,
               response, data, settled, result, error, invoked, jsonCalls,
               fetchCalls, settles, validated, order, triple>>

\* index.ts 93-98 with utils.ts 106-118: call c is made and runs up to the
\* await of Promise.all (calls are numbered in the order they are made)
FlightCall(c, in) ==
  /\ calls[c].pc = "idle"
  /\ IF c = 1 THEN TRUE ELSE calls[c - 1].pc # "idle"
  /\ LET cleanPath == parseMethodFromPath(in.path)[2]
         starts == StartAll(apis[in.path], in.options)
         f == [IdleFrame EXCEPT !.path = in.path, !.options = in.options,
                                !.init = in.init]
     IN calls' = [calls EXCEPT ![c] =
          IF PARAMS_REGEX_test(cleanPath) /\ apis[in.path].params = "none"
            THEN [f EXCEPT !.pc = "done", !.settled = "rejected",
                           !.error = SetupError]
            ELSE [f EXCEPT
                    !.pc = "validating",
                    !.vstate = [k \in Options |->
                                  IF k \in Kinds THEN starts[k].state ELSE "idle"],
                    !.vvalue = [k \in Options |->
                                  IF k \in Kinds THEN starts[k].value ELSE Undefined]]]
  /\ UNCHANGED <<sharedInit, localVars, keyVars, unitVars>>

\* utils.ts validateData 44-50 for params, query or body of call c
FlightValidatorReturns(c, k) ==
  /\ k \in Kinds
  /\ calls[c].vstate[k] = "pending"
  /\ LET f == calls[c]
         r == ValidateDataResult(apis[f.path][k], OptionOf(f.options, k))
         vs == [f.vstate EXCEPT ![k] = IF r.threw THEN "failed" ELSE "ok"]
         rejects == f.pc = "validating" /\ PromiseAll(vs) = "rejected"
     IN calls' = [calls EXCEPT ![c] =
          [f EXCEPT
             !.vstate = vs,
             !.vvalue = [f.vvalue EXCEPT ![k] = r.value],
             !.pc = IF rejects THEN "done" ELSE @,
             !.settled = IF rejects THEN "rejected" ELSE @,
             !.error = IF rejects THEN r.error ELSE @]]
  /\ UNCHANGED <<sharedInit, localVars, keyVars, unitVars>>

\* index.ts 84-117, mutated: init is kept in a variable of the closure, so
\* a call resumes with the init of the call made last
FlightDispatch_lastInit(c) ==
  /\ calls[c].pc = "validating"
  /\ PromiseAll(calls[c].vstate) = "fulfilled"
  /\ LET f == calls[c]
         last == CHOOSE d \in FlightIds :
                   /\ calls[d].pc # "idle"
                   /\ \A e \in FlightIds : e > d => calls[e].pc = "idle"
         triple_ == PromiseAllValue(f.vvalue, <<>>)
         parsed == parseMethodFromPath(f.path)
         httpMethod == HttpMethod(parsed[1], triple_[3])
         requestInit == AttachBody(MergeInit(sharedInit, calls[last].init, httpMethod),
                                   triple_[3])
         url == createUrl(baseUrl, parsed[2], UrlSubstitutions(triple_[1], triple_[2]))
     IN calls' = [calls EXCEPT ![c] =
          [f EXCEPT !.pc = "fetching",
                    !.request = {[url |-> url, init |-> requestInit]}]]
  /\ UNCHANGED <<sharedInit, localVars, keyVars, unitVars>>

\* index.ts 108-117, mutated: the per-call headers are written into the
\* shared configuration's headers object, which then serves as the request's
FlightDispatch_writesShared(c) ==
  /\ calls[c].pc = "validating"
  /\ PromiseAll(calls[c].vstate) = "fulfilled"
  /\ LET f == calls[c]
         triple_ == PromiseAllValue(f.vvalue, <<>>)
         parsed == parseMethodFromPath(f.path)
         httpMethod == HttpMethod(parsed[1], triple_[3])
         requestInit == AttachBody(MergeInit(sharedInit, f.init, httpMethod), triple_[3])
         url == createUrl(baseUrl, parsed[2], UrlSubstitutions(triple_[1], triple_[2]))
     IN /\ calls' = [calls EXCEPT ![c] =
             [f EXCEPT !.pc = "fetching",
                       !.request = {[url |-> url, init |-> requestInit]}]]
        /\ sharedInit' = Cfg(SpreadTop(sharedInit),
                             Merge(SpreadHeaders(sharedInit), SpreadHeaders(f.init)))
  /\ UNCHANGED <<localVars, keyVars, unitVars>>

\* index.ts 94-130 for call c: the await resumes, the request is assembled
\* and fetch is invoked
FlightDispatch(c) ==
  /\ calls[c].pc = "validating"
  /\ PromiseAll(calls[c].vstate) = "fulfilled"
  /\ LET f == calls[c]
         triple_ == PromiseAllValue(f.vvalue, <<>>)
         parsed == parseMethodFromPath(f.path)
         httpMethod == HttpMethod(parsed[1], triple_[3])
         requestInit == AttachBody(MergeInit(sharedInit, f.init, httpMethod), triple_[3])
         url == createUrl(baseUrl, parsed[2], UrlSubstitutions(triple_[1], triple_[2]))
     IN calls' = [calls EXCEPT ![c] =
          [f EXCEPT !.pc = "fetching",
                    !.request = {[url |-> url, init |-> requestInit]}]]
  /\ UNCHANGED <<sharedInit, localVars, keyVars, unitVars>>

\* index.ts 130-139 for call c
FlightFetchReturns(c, resp) ==
  /\ calls[c].pc = "fetching"
  /\ calls' = [calls EXCEPT ![c] =
       IF ~resp.ok
         THEN [@ EXCEPT !.response = {resp}, !.pc = "done",
                        !.settled = "rejected", !.error = HttpError(resp)]
         ELSE [@ EXCEPT !.response = {resp}, !.pc = "decoding"]]
  /\ UNCHANGED <<sharedInit, localVars, keyVars, unitVars>>

\* index.ts 139-141 for call c
FlightJsonReturns(c) ==
  /\ calls[c].pc = "decoding"
  /\ LET f == calls[c]
         resp == CHOOSE r \in f.response : TRUE
         start == ValidateDataStart(apis[f.path], "response", resp.data)
     IN calls' = [calls EXCEPT ![c] =
          [f EXCEPT
             !.data = resp.data,
             !.vstate = [f.vstate EXCEPT !["response"] = start.state],
             !.vvalue = [f.vvalue EXCEPT !["response"] = start.value],
             !.pc = IF start.state = "ok" THEN "done" ELSE "validatingResponse",
             !.settled = IF start.state = "ok" THEN "resolved" ELSE @,
             !.result = IF start.state = "ok" THEN start.value ELSE @]]
  /\ UNCHANGED <<sharedInit, localVars, keyVars, unitVars>>

\* utils.ts validateData 44-50 for the response of call c
FlightResponseValidatorReturns(c) ==
  /\ calls[c].pc = "validatingResponse"
  /\ LET f == calls[c]
         r == ValidateDataResult(apis[f.path].response, f.data)
     IN calls' = [calls EXCEPT ![c] =
          [f EXCEPT
             !.vstate = [f.vstate EXCEPT !["response"] = IF r.threw THEN "failed" ELSE "ok"],
             !.vvalue = [f.vvalue EXCEPT !["response"] = r.value],
             !.pc = "done",
             !.settled = IF r.threw THEN "rejected" ELSE "resolved",
             !.result = IF r.threw THEN Undefined ELSE r.value,
             !.error = IF r.threw THEN r.error ELSE NoError]]
  /\ UNCHANGED <<sharedInit, localVars, keyVars, unitVars>>

NextFlight ==
  \/ \E c \in FlightIds, in \in FlightInputs : FlightCall(c, in)
  \/ \E c \in FlightIds, k \in Kinds : FlightValidatorReturns(c, k)
  \/ \E c \in FlightIds : FlightDispatch(c)
  \/ \E c \in FlightIds, resp \in FlightResponses : FlightFetchReturns(c, resp)
  \/ \E c \in FlightIds : FlightJsonReturns(c)
  \/ \E c \in FlightIds : FlightResponseValidatorReturns(c)

SpecFlight == InitFlight /\ [][NextFlight]_vars

(***************************************************************************)
(* validateData (utils.ts 27-51) called on its own with every bundle over  *)
(* a few validators, every option and a few values                         *)
(***************************************************************************)
UnitSchemas == {"none", "pass", "coerce", "reject"}

UnitBundles == [Options -> UnitSchemas]

UnitData == BodyVals

\* no createFetch call is made in this specification
NoCalls ==
  /\ sharedInit = UndefinedInit
  /\ callNo = 0
  /\ pc = "idle"
  /\ path = <<>>
  /\ options = UndefinedOptions
  /\ init = UndefinedInit
  /\ vstate = [o \in Options |-> "idle"]
  /\ vvalue = [o \in Options |-> Undefined]
  /\ request = {}
  /\ response = {}
  /\ data = Undefined
  /\ settled = "pending"
  /\ result = Undefined
  /\ error = NoError
  /\ invoked = [o \in Options |-> 0]
  /\ jsonCalls = 0
  /\ fetchCalls = [c \in CallIds |-> 0]
  /\ settles = [c \in CallIds |-> 0]
  /\ validated = [c \in CallIds |-> FALSE]
  /\ order = <<>>
  /\ triple = <<>>
  /\ key = <<>>
  /\ hasParams = FALSE
  /\ keyParsed = {}
  /\ setup = "none"
  /\ calls = [c \in FlightIds |-> IdleFrame]

InitValidate ==
  /\ NoCalls
  /\ vd \in [apiSchema : UnitBundles, option : Options, data : UnitData]
  /\ vdPc = "start"
  /\ vdLog = <<>>
  /\ vdOut = Undefined

\* utils.ts 36-44, mutated: every declared validator of the bundle is run
ValidatorInvocations_wholeBundle(apiSchema, option, d) ==
  IF apiSchema[option] = "none" THEN <<>>
  ELSE LET declared == SelectSeq(<<"params", "query", "body", "response">>,
                                 LAMBDA k : apiSchema[k] # "none")
       IN [i \in 1..Len(declared) |-> [slot |-> declared[i], data |-> d]]

\* utils.ts 36-44: the validator invocations validateData makes
ValidatorInvocations(apiSchema, option, d) ==
  IF apiSchema[option] = "none" THEN <<>>
  ELSE <<[slot |-> option, data |-> d]>>

\* utils.ts 36-44: validateData up to its return or its await
ValidateDataCall ==
  /\ vdPc = "start"
  /\ LET start == ValidateDataStart(vd.apiSchema, vd.option, vd.data)
     IN /\ vdLog' = vdLog \o ValidatorInvocations(vd.apiSchema, vd.option, vd.data)
        /\ vdPc' = IF start.state = "ok" THEN "returned" ELSE "awaiting"
        /\ vdOut' = start.value
  /\ UNCHANGED <<vd, callVars, keyVars, calls>>

\* utils.ts 44-50: the validator's result arrives
ValidateDataResume ==
  /\ vdPc = "awaiting"
  /\ LET r == ValidateDataResult(vd.apiSchema[vd.option], vd.data)
     IN /\ vdPc' = IF r.threw THEN "threw" ELSE "returned"
        /\ vdOut' = r.value
  /\ UNCHANGED <<vd, vdLog, callVars, keyVars, calls>>

NextValidate == ValidateDataCall \/ ValidateDataResume

SpecValidate == InitValidate /\ [][NextValidate]_vars

(***************************************************************************)
(* Properties                                                              *)
(***************************************************************************)
Running == pc # "idle"

\* a named segment: "/" then ":" then at least one identifier character
HasNamedSegment(s) ==
  \E i \in 1..(Len(s) - 2) :
    s[i] = "/" /\ s[i + 1] = ":" /\
    s[i + 2] \in LowerLetters \cup UpperLetters \cup Digits \cup {"_"}

CanonicalPath(p) == parseMethodFromPath(p)[2]

SetupMessage == <<"Path contains parameters but no \"params\" schema is defined.">>

\* the issue list the declared validator of option k returns in this call
IssuesOf(k) ==
  LET input == IF k = "response" THEN data ELSE OptionOf(options, k)
  IN CHOOSE l \in StandardValidate(apis[path][k], input).issues : TRUE

\* C1: a call through a path key whose canonical path has a named segment
\* and whose bundle declares no params validator rejects with the setup
\* error, and in that call no validator and no transport is ever invoked.
C1_SetupErrorBeforeAnyWork ==
  (Running /\ path \in DOMAIN apis /\ HasNamedSegment(CanonicalPath(path))
     /\ apis[path].params = "none")
  => /\ settled = "rejected"
     /\ error.message = SetupMessage
     /\ \A k \in Options : invoked[k] = 0 /\ vstate[k] = "idle"
     /\ fetchCalls[callNo] = 0
     /\ request = {}

\* C1 witness: the method-prefixed key '@get/users/:id' without a params
\* schema was called and the call is rejected with the setup error.
C1_Witness ==
  /\ pc = "done"
  /\ path = P_get_users_id
  /\ settled = "rejected"
  /\ error.message = SetupMessage

\* C2: once a declared params, query or body validator has reported issues,
\* the call is rejected with the validation error of a failed validator and
\* the transport has not been and is not invoked for that call.
C2_ValidationFailureBlocksTransport ==
  (\E k \in Kinds : vstate[k] = "failed")
  => /\ settled = "rejected"
     /\ error \in {ValidationError(IssuesOf(k)) : k \in {j \in Kinds : vstate[j] = "failed"}}
     /\ fetchCalls[callNo] = 0
     /\ request = {}
     /\ pc = "done"

\* C2 witness: the body validator of '/items' reported issues while the
\* query validator was still pending; the call is rejected, nothing fetched.
C2_Witness ==
  /\ path = P_items
  /\ vstate["body"] = "failed"
  /\ vstate["query"] = "pending"
  /\ settled = "rejected"
  /\ fetchCalls[callNo] = 0

\* C3: the outbound method is the upper-cased method prefix of the path key
\* when it has one, whatever the body; otherwise POST when the validated
\* body is neither undefined nor null; otherwise GET.
C3_MethodResolution ==
  \A r \in request :
    LET m == r.init.top["method"]
        prefix == parseMethodFromPath(path)[1]
        body == vvalue["body"]
    IN /\ m = IF prefix # UndefinedStr THEN prefix
              ELSE IF body # Undefined /\ body # Null THEN POST ELSE GET
       /\ \A i \in 1..Len(m) : m[i] \notin LowerLetters
       /\ path = P_put_users_id => m = <<"P","U","T">>
       /\ path = P_get => m = GET

\* C3 witness: '@Put/users/:id' dispatched with a body present, method PUT.
C3_Witness ==
  \E r \in request :
    /\ path = P_put_users_id
    /\ vvalue["body"].tag = "object"
    /\ r.init.top["method"] = <<"P","U","T">>

\* C4 as stated: whatever the shared and per-call configuration, an
\* undefined or null body leaves the outbound configuration without a body
\* field, and any other body is carried in its JSON form.
C4_Original ==
  \A r \in request :
    LET top == r.init.top
        body == vvalue["body"]
    IN IF body = Undefined \/ body = Null
         THEN "body" \notin DOMAIN top
         ELSE "body" \in DOMAIN top /\ top["body"] = JSON_stringify(body)

\* C4 amended: with an undefined or null body the outbound configuration
\* has a body field only when the per-call or the shared configuration
\* supplies one (the per-call value if set, else the shared value); any
\* other body, the empty object included, is carried in its JSON form
\* whatever the configurations supply.
C4_BodyAttachment ==
  \A r \in request :
    LET top == r.init.top
        body == vvalue["body"]
        sh == SpreadTop(sharedInit)
        pcl == SpreadTop(init)
    IN IF body = Undefined \/ body = Null
         THEN /\ ("body" \in DOMAIN top) <=> ("body" \in DOMAIN sh \cup DOMAIN pcl)
              /\ "body" \in DOMAIN pcl => top["body"] = pcl["body"]
              /\ ("body" \in DOMAIN sh /\ "body" \notin DOMAIN pcl) => top["body"] = sh["body"]
         ELSE /\ "body" \in DOMAIN top
              /\ top["body"] = JSON_stringify(body)
              /\ body = Obj(NoFields) => top["body"] = <<"{", "}">>
              /\ body = Zero => top["body"] = <<"0">>

\* C4 witness: a request dispatched with a null body and no body in either
\* configuration carries no body field.
C4_Witness ==
  \E r \in request :
    /\ vvalue["body"] = Null
    /\ "body" \notin DOMAIN SpreadTop(sharedInit) \cup DOMAIN SpreadTop(init)
    /\ "body" \notin DOMAIN r.init.top

\* C5: after a non-success response the call is rejected with the error
\* 'HTTP error! status: <status>' whose cause is the raw response, and
\* neither response.json() nor the response validator has been invoked.
C5_HttpErrorOnFailureStatus ==
  \A resp \in response :
    ~resp.ok =>
      /\ settled = "rejected"
      /\ error.name = "Error"
      /\ error.message = <<"HTTP error! status: ", ToString(resp.status)>>
      /\ resp.status = 404 => error.message = <<"HTTP error! status: ", "404">>
      /\ error.cause = {resp}
      /\ jsonCalls = 0
      /\ invoked["response"] = 0
      /\ vstate["response"] = "idle"

\* C5 witness: the transport answered 404 and the call is rejected.
C5_Witness ==
  /\ \E resp \in response : resp.status = 404
  /\ settled = "rejected"
  /\ fetchCalls[callNo] = 1

\* C6: a resolved call resolves with exactly the value the response
\* validator produced for the decoded body, or with the decoded body itself
\* when the bundle declares no response validator.
C6_ResolvesWithValidatedResponse ==
  settled = "resolved" =>
    \E resp \in response :
      /\ resp.ok
      /\ data = resp.data
      /\ result = IF apis[path].response = "none" THEN resp.data
                  ELSE StandardValidate(apis[path].response, resp.data).value

\* C6 witness: a call resolved with a value that differs from the decoded
\* body because the response validator transformed it.
C6_Witness ==
  /\ settled = "resolved"
  /\ apis[path].response = "coerce"
  /\ result # data

\* the message 'Validation failed: ' + JSON.stringify(issues), written out
\* for the two issue lists the validators of the schema map return
ExpectedValidationMessage(schema) ==
  IF schema = "reject"
    THEN <<"Validation failed: ", "[", "{", "\"", "message", "\"", ":",
           "\"", "bad", "\"", "}", "]">>
    ELSE <<"Validation failed: ", "[", "{", "\"", "message", "\"", ":",
           "\"", "required", "\"", "}", ",", "{", "\"", "message", "\"", ":",
           "\"", "not an object", "\"", "}", "]">>

\* C7: whenever a declared validator (params, query, body or response) has
\* returned an issue list, the call is rejected, never resolved, with an
\* error whose message is 'Validation failed: ' followed by the whole
\* serialized issue list of a validator that failed.
C7_ValidationErrorMessage ==
  \A k \in Options :
    vstate[k] = "failed" =>
      /\ settled = "rejected"
      /\ error.name = "Error"
      /\ \E j \in Options :
           /\ vstate[j] = "failed"
           /\ error.message = ExpectedValidationMessage(apis[path][j])
           /\ error.message = <<"Validation failed: ">> \o JSON_stringify_issues(IssuesOf(j))

\* C7 witness: the response validator returned issues after a successful
\* fetch and the call is rejected with the validation message.
C7_Witness ==
  /\ vstate["response"] = "failed"
  /\ settled = "rejected"
  /\ error.message = ExpectedValidationMessage("reject")

\* C8: over the calls made so far, fetch is invoked exactly once for each
\* call whose setup check and request validation succeeded and never for
\* any other call, and every finished call settled exactly once.
C8_OneRequestOneOutcome ==
  \A c \in CallIds :
    /\ fetchCalls[c] <= 1
    /\ settles[c] <= 1
    /\ fetchCalls[c] = 1 => validated[c]
    /\ c > callNo => fetchCalls[c] = 0 /\ settles[c] = 0
    /\ (c < callNo \/ (c = callNo /\ pc \in {"done", "idle"}))
         => /\ settles[c] = 1
            /\ fetchCalls[c] = IF validated[c] THEN 1 ELSE 0
    /\ (c = callNo /\ pc \in {"fetching", "decoding", "validatingResponse"})
         => fetchCalls[c] = 1 /\ settles[c] = 0

\* C8 witness: all calls are finished, the first never reached the
\* transport and the last reached it once.
C8_Witness ==
  /\ callNo = MaxCalls
  /\ pc = "done"
  /\ fetchCalls[1] = 0 /\ ~validated[1] /\ settles[1] = 1
  /\ fetchCalls[MaxCalls] = 1 /\ validated[MaxCalls] /\ settles[MaxCalls] = 1

\* C9: every top-level field of the outbound configuration other than
\* method, headers and body takes the per-call value when the per-call
\* configuration sets it and otherwise the shared value, and the outbound
\* method is the resolved method even when a configuration has a method.
C9_ConfigPrecedence ==
  \A r \in request :
    LET top == r.init.top
        sh == SpreadTop(sharedInit)
        pcl == SpreadTop(init)
        others == (DOMAIN sh \cup DOMAIN pcl) \ {"method", "headers", "body"}
    IN /\ DOMAIN top \ {"method", "body"} = others
       /\ \A f \in others :
            top[f] = IF f \in DOMAIN pcl THEN pcl[f] ELSE sh[f]
       /\ top["method"] = HttpMethod(parseMethodFromPath(path)[1], vvalue["body"])
       /\ top["method"] \notin {S("PATCH"), S("DELETE")}

\* C9 witness: both configurations set cache, only the shared one sets
\* credentials, and the per-call one carries a method of its own.
C9_Witness ==
  \E r \in request :
    /\ "cache" \in DOMAIN SpreadTop(sharedInit)
    /\ "method" \in DOMAIN SpreadTop(init)
    /\ r.init.top["cache"] = S("reload")
    /\ r.init.top["credentials"] = S("include")
    /\ r.init.top["method"] = GET

ExpectedValidated(k) ==
  LET input == IF options.tag = "undefined" THEN Undefined ELSE options[k]
  IN IF ApisAt(path)[k] = "none" THEN input
     ELSE StandardValidate(ApisAt(path)[k], input).value

\* C11: the URL handed to the transport is the URL builder applied to the
\* base URL, the canonical path (method prefix removed) and the union of the
\* validated params and query, a key of both taking the query value.
C11_UrlFromParamsAndQuery ==
  \A r \in request :
    LET p == Spread(ExpectedValidated("params"))
        q == Spread(ExpectedValidated("query"))
        subst == r.url.subst
    IN /\ r.url.base = baseUrl
       /\ r.url.path = CanonicalPath(path)
       /\ path = P_put_users_id => r.url.path = P_users_id
       /\ DOMAIN subst = DOMAIN p \cup DOMAIN q
       /\ \A k \in DOMAIN subst : subst[k] = IF k \in DOMAIN q THEN q[k] ELSE p[k]
       /\ r.url = createUrl(baseUrl, r.url.path, subst)

\* C11 witness: '/users/:id' dispatched with params {id: 1} and query
\* {id: 9}: the substitution map carries id 9.
C11_Witness ==
  \E r \in request :
    /\ path = P_users_id
    /\ "id" \in DOMAIN Spread(ExpectedValidated("params"))
    /\ Spread(ExpectedValidated("params"))["id"] = "1"
    /\ "id" \in DOMAIN r.url.subst /\ r.url.subst["id"] = "9"

\* the call in progress passed the setup check of validateRequestData
SetupPassed ==
  /\ Running
  /\ path \in DOMAIN apis
  /\ ~(HasNamedSegment(CanonicalPath(path)) /\ apis[path].params = "none")

\* C15: in every step of a call, the transport is invoked only when all
\* three request validations have completed successfully, and the response
\* validation is started only when the transport has returned a success
\* response and its body has been decoded.
C15_StageOrdering ==
  [][/\ (fetchCalls' # fetchCalls \/ (request' # {} /\ request = {}))
          => /\ \A k \in Kinds : vstate[k] = "ok"
             /\ \A k \in Kinds : apis[path][k] # "none" => invoked[k] = 1
     /\ (invoked'["response"] > invoked["response"]
           \/ (vstate'["response"] # "idle" /\ vstate["response"] = "idle"))
          => /\ fetchCalls[callNo] = 1
             /\ jsonCalls = 1
             /\ \A k \in Kinds : vstate[k] = "ok"
             /\ \E resp \in response : resp.ok /\ data' = resp.data
    ]_vars

\* C15 witness: '/users/:id' went through three declared request
\* validators, a fetch and a decoded 200 answer, and its response validator
\* is now running.
C15_Witness ==
  /\ path = P_users_id
  /\ pc = "validatingResponse"
  /\ invoked = [k \in Options |-> 1]
  /\ fetchCalls[callNo] = 1

\* C16: on a call whose setup check passed, from the moment the call has
\* reached its first await every declared params, query and body validator
\* has been invoked exactly once (an undeclared one never), whether or not
\* any of the others has completed.
C16_AllValidatorsStartedOnce ==
  SetupPassed =>
    \A k \in Kinds :
      /\ invoked[k] = IF apis[path][k] = "none" THEN 0 ELSE 1
      /\ vstate[k] # "idle"

\* C16 witness: on '/users/:id' the three validators have been invoked and
\* none of them has completed yet.
C16_Witness ==
  /\ path = P_users_id
  /\ \A k \in Kinds : vstate[k] = "pending" /\ invoked[k] = 1

\* the request validation that failed first in this call
FirstFailed ==
  order[CHOOSE i \in 1..Len(order) :
          /\ vstate[order[i]] = "failed"
          /\ \A j \in 1..(i - 1) : vstate[order[j]] # "failed"]

\* C17: as soon as one request validation has failed the call is rejected
\* with that validation's error, whatever the state of the other two; when
\* several have failed, the error is that of the one that failed first.
C17_FirstFailureWins ==
  (\E k \in Kinds : vstate[k] = "failed")
  => /\ settled = "rejected"
     /\ settles[callNo] = 1
     /\ error = ValidationError(IssuesOf(FirstFailed))
     /\ error.message = ExpectedValidationMessage(apis[path][FirstFailed])

\* C17 witness: on '/items' the body validator failed, then the query
\* validator failed too: the call carries the body validator's error.
C17_Witness ==
  /\ path = P_items
  /\ order = <<"params", "body", "query">>
  /\ vstate["body"] = "failed"
  /\ vstate["query"] = "failed"
  /\ error.message = ExpectedValidationMessage("reject")

\* C18: whatever the order in which the three validations completed, the
\* triple validateRequestData resolves with is (params, query, body), each
\* the declared validator's value or the caller's input when no validator
\* is declared, undefined standing for omitted options and fields.
C18_TripleInFixedOrder ==
  triple # <<>>
  => triple = <<ExpectedValidated("params"), ExpectedValidated("query"),
                ExpectedValidated("body")>>

\* C18 witness: on '/users/:id' the body validation completed before the
\* params validation, and the triple still has params first and the body
\* validator's null last.
C18_Witness ==
  /\ path = P_users_id
  /\ \E i, j \in 1..Len(order) : i < j /\ order[i] = "body" /\ order[j] = "params"
  /\ Len(triple) = 3
  /\ triple[3] = Null
  /\ triple[1] # Null

\* an identifier character
IdentChar(c) == c \in LowerLetters \cup UpperLetters \cup Digits \cup {"_"}

\* key is '@' + an n-character method name, followed by '/' or by nothing
PrefixedBy(k, n) ==
  /\ n >= 1 /\ n + 1 <= Len(k)
  /\ k[1] = "@"
  /\ \A j \in 2..(n + 1) : IdentChar(k[j])
  /\ (n + 1 = Len(k) \/ k[n + 2] = "/")

\* C12: for a path key whose canonical path has no named segment the
\* parameter check never throws the setup error, whether or not the bundle
\* declares a params validator.
C12_NoSetupErrorWithoutSegments ==
  (setup # "none" /\ ~HasNamedSegment(CanonicalPath(key))) => setup = "passed"

\* C12 witness: '/a:a' (a colon that does not open a segment), no params
\* schema declared, and the check passed.
C12_Witness ==
  /\ key = <<"/", "a", ":", "a">>
  /\ ~hasParams
  /\ setup = "passed"

InputOf(c) ==
  [path |-> calls[c].path, options |-> calls[c].options, init |-> calls[c].init]

\* the request call c handed to fetch
RequestOf(c) == CHOOSE r \in calls[c].request : TRUE

\* C13: two calls made with the same path key, options and per-call
\* configuration through the same call operation hand fetch the same method,
\* URL, headers and serialized body, whatever calls were made in between.
C13_SameInputsSameRequest ==
  \A c, d \in FlightIds :
    (c < d /\ calls[c].request # {} /\ calls[d].request # {}
       /\ InputOf(c) = InputOf(d))
    => /\ RequestOf(c).init.top["method"] = RequestOf(d).init.top["method"]
       /\ RequestOf(c).url = RequestOf(d).url
       /\ RequestOf(c).init.headers = RequestOf(d).init.headers
       /\ ("body" \in DOMAIN RequestOf(c).init.top) = ("body" \in DOMAIN RequestOf(d).init.top)
       /\ RequestOf(c).init.top = RequestOf(d).init.top

\* C13 witness: the first and third call are the same PUT to '/ping' with
\* headers of their own, a GET without such headers was made and sent in
\* between, and both PUTs have been handed to fetch with their body.
C13_Witness ==
  /\ calls[1].path = P_put_ping /\ calls[1].init # UndefinedInit
  /\ calls[2].path = P_get_ping /\ calls[2].request # {}
  /\ InputOf(3) = InputOf(1)
  /\ calls[1].request # {}
  /\ calls[3].request # {}
  /\ "body" \in DOMAIN RequestOf(3).init.top

\* key is '@' + an n-character method name + p
PrefixedKeyOf(k, n, p) ==
  /\ PrefixedBy(k, n)
  /\ n + 1 < Len(k)
  /\ SubSeq(k, n + 2, Len(k)) = p

\* C14: a call through '@' + method + P and a call through P, with the same
\* params and query under the same params and query validators, are sent to
\* the same URL, that of P; and '@get' + P and P, both called without a
\* body, are both sent as GET.
C14_PrefixChangesOnlyMethod ==
  \A c, d \in FlightIds :
    (/\ calls[c].request # {} /\ calls[d].request # {}
     /\ Len(calls[c].path) > Len(calls[d].path) + 1
     /\ PrefixedKeyOf(calls[c].path, Len(calls[c].path) - Len(calls[d].path) - 1,
                      calls[d].path)
     /\ \A k \in {"params", "query"} :
          /\ OptionOf(calls[c].options, k) = OptionOf(calls[d].options, k)
          /\ apis[calls[c].path][k] = apis[calls[d].path][k])
    => LET n == Len(calls[c].path) - Len(calls[d].path) - 1
       IN /\ RequestOf(c).url = RequestOf(d).url
          /\ RequestOf(d).url.path = calls[d].path
          /\ (/\ ToUpperCase(SubSeq(calls[c].path, 2, n + 1)) = GET
              /\ OptionOf(calls[c].options, "body") = Undefined
              /\ OptionOf(calls[d].options, "body") = Undefined
              /\ apis[calls[c].path].body = "none"
              /\ apis[calls[d].path].body = "none")
             => /\ RequestOf(c).init.top["method"] = GET
                /\ RequestOf(d).init.top["method"] = GET
                /\ RequestOf(c).init = RequestOf(d).init

\* C14 witness: '@put/ping' and '/ping' were called with the same query;
\* both were sent to the same URL, one as PUT and one as GET.
C14_Witness ==
  \E c, d \in FlightIds :
    /\ calls[c].path = P_put_ping /\ calls[d].path = P_ping
    /\ calls[c].request # {} /\ calls[d].request # {}
    /\ RequestOf(c).url = RequestOf(d).url
    /\ RequestOf(c).init.top["method"] = <<"P", "U", "T">>
    /\ RequestOf(d).init.top["method"] = GET

\* the shared configuration the call operation was set up with
SetupShared == CHOOSE sh \in FlightShared : TRUE

\* what validateRequestData resolves with for option k of input in when the
\* call runs with no other call in flight
AloneValidated(in, k) ==
  IF apis[in.path][k] = "none" THEN OptionOf(in.options, k)
  ELSE StandardValidate(apis[in.path][k], OptionOf(in.options, k)).value

\* index.ts 100-127 run straight through for one call
AloneRequest(in) ==
  LET parsed == parseMethodFromPath(in.path)
      body == AloneValidated(in, "body")
  IN [url |-> createUrl(baseUrl, parsed[2],
                        UrlSubstitutions(AloneValidated(in, "params"),
                                         AloneValidated(in, "query"))),
      init |-> AttachBody(MergeInit(SetupShared, in.init, HttpMethod(parsed[1], body)),
                          body)]

\* utils.ts 106-118 run for one call: the errors it may throw
AloneRejections(in) ==
  IF HasNamedSegment(CanonicalPath(in.path)) /\ apis[in.path].params = "none"
    THEN {SetupError}
    ELSE {ValidationError(l) :
            l \in UNION {StandardValidate(apis[in.path][k], OptionOf(in.options, k)).issues :
                           k \in {j \in Kinds : apis[in.path][j] # "none"}}}

\* index.ts 130-141 run straight through for one call answered with resp
AloneOutcome(in, resp) ==
  IF ~resp.ok
    THEN [settled |-> "rejected", result |-> Undefined, error |-> HttpError(resp)]
  ELSE IF apis[in.path].response = "none"
    THEN [settled |-> "resolved", result |-> resp.data, error |-> NoError]
  ELSE LET r == StandardValidate(apis[in.path].response, resp.data)
       IN IF r.issues # {}
            THEN [settled |-> "rejected", result |-> Undefined,
                  error |-> ValidationError(CHOOSE l \in r.issues : TRUE)]
            ELSE [settled |-> "resolved", result |-> r.value, error |-> NoError]

\* the request and, per answer, the outcome of every input run alone
AloneRequests == [in \in FlightInputs |-> AloneRequest(in)]

AloneOutcomes == [in \in FlightInputs |-> [resp \in FlightResponses |-> AloneOutcome(in, resp)]]

\* C19: with several calls in flight and their steps interleaved in any
\* way, the request of each call is the one that call makes when it runs
\* alone, and its outcome is the one it has alone given the same answer.
C19_CallsDoNotInterfere ==
  \A c \in FlightIds :
    LET f == calls[c]
        outcome == [settled |-> f.settled, result |-> f.result, error |-> f.error]
    IN /\ f.request # {} => f.request = {AloneRequests[InputOf(c)]}
       /\ (f.settled # "pending" /\ f.request # {})
            => \E resp \in f.response : outcome = AloneOutcomes[InputOf(c)][resp]
       /\ (f.settled # "pending" /\ f.request = {})
            => f.settled = "rejected" /\ f.error \in AloneRejections(InputOf(c))
       /\ f.pc = "done" <=> f.settled # "pending"

\* C19 witness: while the first call, a PUT, is still suspended in its
\* request validation, the second call, a GET made after it, has been sent,
\* answered and resolved with its coerced data.
C19_Witness ==
  /\ calls[1].path = P_put_ping
  /\ calls[1].pc = "validating"
  /\ calls[2].path = P_ping
  /\ calls[2].settled = "resolved"
  /\ calls[2].result = Obj(("role" :> "user") @@ ("id" :> "1") @@ ("name" :> "John"))

\* key starts with '@', then one or more characters of class, then '/' or
\* the end of the key
StartsWithMethod(k, class) ==
  \E n \in 1..Len(k) :
    /\ n + 1 <= Len(k)
    /\ k[1] = "@"
    /\ \A j \in 2..(n + 1) : k[j] \in class
    /\ (n + 1 = Len(k) \/ k[n + 2] = "/")

\* C21 as stated: a key yields a method only when it starts with '@', one
\* or more letters, then '/' or the end; every other key yields no method
\* and itself as the path.
C21_Original ==
  \A out \in keyParsed :
    /\ out[1] # UndefinedStr => StartsWithMethod(key, LowerLetters \cup UpperLetters)
    /\ ~StartsWithMethod(key, LowerLetters \cup UpperLetters) => out = <<UndefinedStr, key>>

\* C21, amended: a key yields a method exactly when it starts with '@', one
\* or more identifier characters (letters, digits, '_'), then '/' or the
\* end; every other key yields no method and itself as the path.
C21_MethodOnlyAfterWordPrefix ==
  \A out \in keyParsed :
    LET word == LowerLetters \cup UpperLetters \cup Digits \cup {"_"}
    IN /\ out[1] # UndefinedStr <=> StartsWithMethod(key, word)
       /\ ~StartsWithMethod(key, word) => out = <<UndefinedStr, key>>
       /\ key = <<"@", "a", ":", "a">> => out = <<UndefinedStr, key>>
       /\ key = <<"a", "@", "a">> => out = <<UndefinedStr, key>>

\* C21 witness: '@a_1/' has a digit and an underscore in its method name and
\* is parsed into the method 'A_1' and the path '/'.
C21_Witness ==
  /\ key = <<"@", "a", "_", "1", "/">>
  /\ keyParsed = {<< <<"A", "_", "1">>, <<"/">> >>}

\* C22: validateData returns its input unchanged and runs no validator when
\* the bundle has none for the option; otherwise it runs that option's
\* validator, and no other, exactly once on the input, and on a result
\* without issues returns the value the result carries (the input itself
\* for a validator that returns its input).
C22_ValidateRoundTrip ==
  LET schema == vd.apiSchema[vd.option]
  IN /\ schema = "none" =>
          /\ vdLog = <<>>
          /\ vdPc # "awaiting"
          /\ vdPc = "returned" => vdOut = vd.data
     /\ (schema # "none" /\ vdPc # "start") =>
          /\ vdLog = <<[slot |-> vd.option, data |-> vd.data]>>
          /\ (vdPc = "returned" /\ schema = "pass") => vdOut = vd.data
          /\ (vdPc = "returned" /\ schema = "coerce") =>
               vdOut = Obj(Merge([k \in {"role"} |-> "user"], Spread(vd.data)))
          /\ vdPc = "returned" <=>
               (vdPc # "awaiting" /\ StandardValidate(schema, vd.data).issues = {})
     /\ vdPc = "start" => vdLog = <<>>

\* C22 witness: with a pass-through body validator next to a coercing query
\* validator and a rejecting response validator, validateData of 'body'
\* returned the object it was given after one invocation.
C22_Witness ==
  /\ vd.apiSchema = Bundle("none", "coerce", "pass", "reject")
  /\ vd.option = "body"
  /\ vd.data = Obj([k \in {"name"} |-> "John"])
  /\ vdPc = "returned"
  /\ vdOut = vd.data
  /\ Len(vdLog) = 1

\* the body field the shared and per-call configuration supply themselves
ConfigTop == Merge(SpreadTop(sharedInit), SpreadTop(init))

\* the request's URL values, method and body follow the validators' outputs
FromValidated(r) ==
  LET p == Spread(ExpectedValidated("params"))
      q == Spread(ExpectedValidated("query"))
      b == ExpectedValidated("body")
      top == r.init.top
  IN /\ r.url.subst = [k \in DOMAIN p \cup DOMAIN q |->
                         IF k \in DOMAIN q THEN q[k] ELSE p[k]]
     /\ (parseMethodFromPath(path)[1] = UndefinedStr)
          => top["method"] = IF b # Undefined /\ b # Null THEN POST ELSE GET
     /\ (b # Undefined /\ b # Null)
          => "body" \in DOMAIN top /\ top["body"] = JSON_stringify(b)

\* C23 as stated: the request is built from the validators' outputs, and a
\* body the validator turned into null or undefined leaves the request
\* without a body.
C23_Original ==
  \A r \in request :
    /\ FromValidated(r)
    /\ ExpectedValidated("body") \in {Undefined, Null} => "body" \notin DOMAIN r.init.top

\* C23, amended: the request is built from the validators' outputs, never
\* from the raw options; a body the validator turned into null or undefined
\* adds no body, so the request has a body field only if the shared or the
\* per-call configuration supplies one, and then that one.
C23_BuiltFromValidated ==
  \A r \in request :
    /\ FromValidated(r)
    /\ ExpectedValidated("body") \in {Undefined, Null} =>
         /\ "body" \in DOMAIN r.init.top <=> "body" \in DOMAIN ConfigTop
         /\ "body" \in DOMAIN ConfigTop => r.init.top["body"] = ConfigTop["body"]
    /\ (path = P_users_id /\ "body" \notin DOMAIN ConfigTop) =>
         r.init.top["method"] = GET /\ "body" \notin DOMAIN r.init.top

\* C23 witness: '/notes' was called without options; its body validator made
\* an object of the absent body, and the request is a POST carrying it.
C23_Witness ==
  \E r \in request :
    /\ path = P_notes
    /\ options = UndefinedOptions
    /\ r.init.top["method"] = POST
    /\ "body" \in DOMAIN r.init.top
    /\ r.init.top["body"] = JSON_stringify(Obj([k \in {"role"} |-> "user"]))

\* C24: on a path key without a method prefix, with no body field in the
\* shared or the per-call configuration, a request handed to fetch is a POST
\* exactly when it carries a body and a GET exactly when it carries none.
C24_PostIffBody ==
  \A r \in request :
    (/\ path # <<>> /\ path[1] # "@"
     /\ "body" \notin DOMAIN SpreadTop(sharedInit)
     /\ "body" \notin DOMAIN SpreadTop(init))
    => /\ r.init.top["method"] \in {POST, GET}
       /\ r.init.top["method"] = POST <=> "body" \in DOMAIN r.init.top
       /\ r.init.top["method"] = GET <=> "body" \notin DOMAIN r.init.top

\* C24 witness: '/users' sent with the body 0, which is falsy but present:
\* a POST carrying "0", under a per-call configuration that names a method
\* of its own and no body.
C24_Witness ==
  \E r \in request :
    /\ path = P_users
    /\ "method" \in DOMAIN SpreadTop(init)
    /\ "body" \notin DOMAIN SpreadTop(sharedInit)
    /\ r.init.top["method"] = POST
    /\ "body" \in DOMAIN r.init.top
    /\ r.init.top["body"] = <<"0">>

\* C25: no step of a call changes the shared configuration or its headers,
\* and while a call runs its path key, its options and its per-call
\* configuration stay as the caller passed them; what is handed to fetch is
\* built beside them. The schema map and the base URL are never assigned.
C25_InputsUntouched ==
  [][/\ sharedInit' = sharedInit
     /\ (pc # "idle" /\ pc' # "idle")
          => /\ path' = path
             /\ options' = options
             /\ init' = init
     /\ (request' # request /\ request' # {})
          => \A r \in request' :
               /\ r.init.headers = MergeHeaders(sharedInit', init')
               /\ "method" \in DOMAIN r.init.top
    ]_vars

\* C25 witness: the second call, made without a per-call configuration after
\* a first call was sent, goes out with the header value of the shared
\* configuration as it was bound at setup.
C25_Witness ==
  \E r \in request :
    /\ callNo = 2
    /\ fetchCalls[1] = 1
    /\ init = UndefinedInit
    /\ "X-A" \in DOMAIN SpreadHeaders(sharedInit)
    /\ SpreadHeaders(sharedInit)["X-A"] = S("1")
    /\ "X-A" \in DOMAIN r.init.headers
    /\ r.init.headers["X-A"] = S("1")
    /\ "method" \notin DOMAIN SpreadTop(sharedInit)

\* C26 as stated: a call whose path key has no entry in the schema map is
\* never handed to fetch, never resolves, and when it is over it has
\* rejected with an error.
C26_UnknownKeyRejects ==
  (Running /\ path \notin DOMAIN apis)
  => /\ request = {}
     /\ fetchCalls[callNo] = 0
     /\ settled # "resolved"
     /\ pc = "done" => (settled = "rejected" /\ error # NoError)

\* the call is over, fetch was invoked and gave no response: it rejected
TransportRejected == pc = "done" /\ request # {} /\ response = {}

\* the call is over, the response was ok and its body never arrived:
\* response.json() rejected
DecodeRejected ==
  /\ pc = "done"
  /\ \E r \in response : r.ok
  /\ vstate["response"] = "idle"

\* C27: when fetch rejects, or response.json() rejects, the call rejects
\* with that very error; the response validator is not invoked, the call
\* has no value, and fetch was invoked exactly once.
C27_TransportAndDecodeErrorsPropagate ==
  /\ TransportRejected
       => /\ settled = "rejected"
          /\ error = NetworkError
          /\ jsonCalls = 0
  /\ DecodeRejected
       => /\ settled = "rejected"
          /\ error = DecodeError
          /\ jsonCalls = 1
  /\ (TransportRejected \/ DecodeRejected)
       => /\ result = Undefined
          /\ invoked["response"] = 0
          /\ fetchCalls[callNo] = 1
          /\ settles[callNo] = 1

\* C27 witness: the body of an ok response to a path with a declared
\* response validator could not be decoded
C27_Witness ==
  /\ DecodeRejected
  /\ path = P_users_id
  /\ apis[P_users_id].response # "none"
  /\ error = DecodeError

\* position of a stage on the path of one call: request validation (with
\* the setup check before it), network call, body decoding, response
\* validation, settled
StageRank(stage) ==
  CASE stage = "idle" -> 0
    [] stage = "validating" -> 1
    [] stage = "fetching" -> 2
    [] stage = "decoding" -> 3
    [] stage = "validatingResponse" -> 4
    [] stage = "done" -> 5

\* a step of a running call either stays in its stage or moves to a later
\* one, and no setup check, validator, fetch or decoding runs twice
StagesOnlyForward ==
  /\ (pc # "done" /\ pc' # pc) => StageRank(pc') > StageRank(pc)
  /\ pc = "done" => pc' \in {"done", "idle"}
  /\ \A k \in Options : invoked'[k] <= 1
  /\ \A c \in CallIds : fetchCalls'[c] <= 1 /\ settles'[c] <= 1
  /\ jsonCalls' <= 1
  /\ (pc # "idle" /\ pc' # "idle") => callNo' = callNo

\* C28: when every invoked validator, the fetch and the decoding complete,
\* every call that was made eventually settles, resolved or rejected; and a
\* call goes through its stages in order, each at most once, never back.
C28_CallsSettleStagesInOrder ==
  /\ (pc \notin {"idle", "done"})
       ~> (pc = "done" /\ settled \in {"resolved", "rejected"})
  /\ [][StagesOnlyForward]_vars

\* C28 witness: a call to '/users/:id' went through request validation,
\* fetch, decoding and response validation and has resolved
C28_Witness ==
  /\ path = P_users_id
  /\ pc = "done"
  /\ settled = "resolved"
  /\ invoked = [k \in Options |-> 1]
  /\ fetchCalls[callNo] = 1
  /\ jsonCalls = 1
  /\ vstate["response"] = "ok"
====
